---------------------------- MODULE Spec2Model ----------------------------
(***************************************************************************)
(* A model of src/LabsCodes/md.c: a fixed-step molecular dynamics program  *)
(* (velocity Verlet, saturating pair potential).                           *)
(*                                                                         *)
(* The module holds five specifications, one per unit of the program:      *)
(*   Spec         main: allocation, the time stepping loop, the summary    *)
(*   SpecGen      r8mat_uniform_ab: the seed check and the draws of a fill *)
(*   SpecUpdate   update: one velocity Verlet call over all slots          *)
(*   SpecCompute  compute and dist: forces and energies of a field         *)
(*   SpecScratch  compute's calls of dist and the scratch vector rij       *)
(*                                                                         *)
(* Numbers.  C ints are 32-bit: an int operation whose result leaves the   *)
(* range is recorded (ok = FALSE) instead of being computed.  Doubles are  *)
(* modelled without rounding: update works on exact rationals; compute     *)
(* works on integer grid positions, where a distance is kept as its        *)
(* square and the sums of sin terms are kept as the sums they are.         *)
(***************************************************************************)
EXTENDS Integers, Sequences, FiniteSets

VARIABLES
  \* ---- main -------------------------------------------------------------
  pc,        \* where main is
  step,      \* main's loop counter
  step_num,  \* the number of time steps
  buf,       \* acc, force, pos, vel: "unalloc", "null", "live" or "freed"
  forceBy,   \* the step whose compute last wrote the force field, -1: none
  energyBy,  \* the step whose compute last wrote potential and kinetic
  e0By,      \* the step whose energies e0 holds, -1: not set
  e0Writes,  \* how many times e0 was assigned
  trace,     \* the calls main made, in order
  out,       \* the lines printed on standard output
  status,    \* "running", "exit0" or "killed"
  \* ---- r8mat_uniform_ab --------------------------------------------------
  gpc,       \* "entry", "loop", "returned", "exited" ("idle" elsewhere)
  seed,      \* *seed
  gm, gn,    \* m, n
  gi, gj,    \* i, j
  gk,        \* k
  r,         \* r[]: the slots written so far, as the seed each was made from
  gexit,     \* the exit status, -1 while the process runs
  intOk,     \* FALSE once an int operation left the 32-bit range
  \* ---- update -----------------------------------------------------------
  upc,       \* "call", "returned" ("idle" elsewhere)
  unp, und,  \* np, nd
  upos, uvel, uacc, uf,   \* pos[], vel[], acc[], f[]
  umass, udt,             \* mass, dt
  \* ---- compute ----------------------------------------------------------
  cpc,       \* "call", "returned" ("idle" elsewhere)
  cnp, cnd,  \* np, nd
  cpos, cvel,\* pos[], vel[]
  cmass,     \* mass
  cf,        \* f[]
  pot, kin,  \* *pot, *kin
  visited,   \* the pairs (k, j) compute handed to dist, with the distance
  calls,     \* the number of compute calls made
  \* ---- compute's scratch vector ------------------------------------------
  spc,       \* "pair", "dist", "returned", "fault" ("idle" elsewhere)
  snp, snd,  \* np, nd
  sk, sj,    \* k, j
  si,        \* dist's i
  rij,       \* the scratch vector, RijCap slots
  written,   \* the indices of dr[] that dist has written
  spos       \* pos[]

mainVars == <<pc, step, step_num, buf, forceBy, energyBy, e0By, e0Writes, trace, out, status>>
genVars == <<gpc, seed, gm, gn, gi, gj, gk, r, gexit, intOk>>
updVars == <<upc, unp, und, upos, uvel, uacc, uf, umass, udt>>
cmpVars == <<cpc, cnp, cnd, cpos, cvel, cmass, cf, pot, kin, visited, calls>>
scrVars == <<spc, snp, snd, sk, sj, si, rij, written, spos>>
vars == <<mainVars, genVars, updVars, cmpVars, scrVars>>

(***************************************************************************)
(* Bounds of the model.                                                    *)
(***************************************************************************)
MaxStepNum == 3

(***************************************************************************)
(* Each specification leaves the other units idle.                         *)
(***************************************************************************)
MainIdle ==
  /\ pc = "idle" /\ step = 0 /\ step_num = 0 /\ buf = <<>> /\ forceBy = -1
  /\ energyBy = -1 /\ e0By = -1 /\ e0Writes = 0 /\ trace = <<>> /\ out = <<>>
  /\ status = "idle"

GenIdle ==
  /\ gpc = "idle" /\ seed = 0 /\ gm = 0 /\ gn = 0 /\ gi = 0 /\ gj = 0 /\ gk = 0
  /\ r = <<>> /\ gexit = -1 /\ intOk = TRUE

UpdIdle ==
  /\ upc = "idle" /\ unp = 0 /\ und = 0 /\ upos = <<>> /\ uvel = <<>>
  /\ uacc = <<>> /\ uf = <<>> /\ umass = 0 /\ udt = 0

CmpIdle ==
  /\ cpc = "idle" /\ cnp = 0 /\ cnd = 0 /\ cpos = <<>> /\ cvel = <<>>
  /\ cmass = 0 /\ cf = <<>> /\ pot = <<>> /\ kin = <<>> /\ visited = <<>>
  /\ calls = 0

ScrIdle ==
  /\ spc = "idle" /\ snp = 0 /\ snd = 0 /\ sk = 0 /\ sj = 0 /\ si = 0
  /\ rij = <<>> /\ written = {} /\ spos = <<>>

\* What an action of main, of the generator, of update, of compute and of
\* the scratch vector leaves alone: the other units.
MainOnly == UNCHANGED <<genVars, updVars, cmpVars, scrVars>>

GenOnly == UNCHANGED <<mainVars, updVars, cmpVars, scrVars>>

UpdOnly == UNCHANGED <<mainVars, genVars, cmpVars, scrVars>>

CmpOnly == UNCHANGED <<mainVars, genVars, updVars, scrVars>>

ScrOnly == UNCHANGED <<mainVars, genVars, updVars, cmpVars>>

(***************************************************************************)
(* main                                                                    *)
(***************************************************************************)
Buffers == {"acc", "force", "pos", "vel"}

\* One entry of the call trace: the call, the step it belongs to, and for
\* update the step whose compute wrote the force field it reads.
Event(op, s, f) == [op |-> op, step |-> s, force |-> f]

\* A call that reads or writes through a buffer that is not live is
\* undefined: the process is killed, or the access goes through.
Touches(bs) == \E b \in bs : buf[b] # "live"

Init ==
  /\ pc = "alloc"
  /\ step = 0
  /\ step_num \in 0..MaxStepNum
  /\ buf = [b \in Buffers |-> "unalloc"]
  /\ forceBy = -1
  /\ energyBy = -1
  /\ e0By = -1
  /\ e0Writes = 0
  /\ trace = <<>>
  /\ out = <<>>
  /\ status = "running"
  /\ GenIdle /\ UpdIdle /\ CmpIdle /\ ScrIdle

\* Lines 65-68: four malloc calls, none of them checked.
MainAlloc ==
  /\ pc = "alloc"
  /\ \E got \in [Buffers -> {"live", "null"}] : buf' = got
  /\ pc' = "loop"
  /\ UNCHANGED <<step, step_num, forceBy, energyBy, e0By, e0Writes, trace, out, status>>
  /\ MainOnly

\* The loop test with the last step left out.
LoopCondStrict(s, n) == s < n

\* Line 76: the loop runs while step <= step_num.
LoopCond(s, n) == s <= n

\* Lines 76-78: the loop test and the branch on step == 0.
MainLoopTest ==
  /\ pc = "loop"
  /\ pc' = IF LoopCond(step, step_num)
           THEN (IF step = 0 THEN "initialize" ELSE "update")
           ELSE "print"
  /\ UNCHANGED <<step, step_num, buf, forceBy, energyBy, e0By, e0Writes, trace, out, status>>
  /\ MainOnly

\* The ways a call that touches the buffers bs ends: it returns, or, when
\* one of them is not live, the process may be killed instead.
Killed(bs) ==
  /\ Touches(bs)
  /\ pc' = "fault"
  /\ status' = "killed"

\* Line 80: initialize writes pos, vel and acc.
MainInitialize ==
  /\ pc = "initialize"
  /\ trace' = Append(trace, Event("initialize", step, -1))
  /\ \/ Killed({"pos", "vel", "acc"})
     \/ pc' = "compute" /\ status' = status
  /\ UNCHANGED <<step, step_num, buf, forceBy, energyBy, e0By, e0Writes, out>>
  /\ MainOnly

\* Line 84: update reads the force field and writes pos, vel and acc.
MainUpdate ==
  /\ pc = "update"
  /\ trace' = Append(trace, Event("update", step, forceBy))
  /\ \/ Killed(Buffers)
     \/ pc' = "compute" /\ status' = status
  /\ UNCHANGED <<step, step_num, buf, forceBy, energyBy, e0By, e0Writes, out>>
  /\ MainOnly

\* Line 87: compute reads pos and vel, writes the force field and the two
\* energies.
MainCompute ==
  /\ pc = "compute"
  /\ trace' = Append(trace, Event("compute", step, -1))
  /\ \/ Killed({"pos", "vel", "force"}) /\ UNCHANGED <<forceBy, energyBy>>
     \/ /\ pc' = "record"
        /\ status' = status
        /\ forceBy' = step
        /\ energyBy' = step
  /\ UNCHANGED <<step, step_num, buf, e0By, e0Writes, out>>
  /\ MainOnly

\* Lines 89-94: e0 is set at step 0 only; then step++.
MainRecord ==
  /\ pc = "record"
  /\ IF step = 0
     THEN /\ e0By' = energyBy
          /\ e0Writes' = e0Writes + 1
          /\ trace' = Append(trace, Event("e0", step, -1))
     ELSE UNCHANGED <<e0By, e0Writes, trace>>
  /\ step' = step + 1
  /\ pc' = "loop"
  /\ UNCHANGED <<step_num, buf, forceBy, energyBy, out, status>>
  /\ MainOnly

\* Line 96: the summary line, made of potential, kinetic and e0.
MainPrint ==
  /\ pc = "print"
  /\ out' = Append(out, [energy |-> energyBy, e0 |-> e0By])
  /\ trace' = Append(trace, Event("print", step, -1))
  /\ pc' = "free"
  /\ UNCHANGED <<step, step_num, buf, forceBy, energyBy, e0By, e0Writes, status>>
  /\ MainOnly

\* Lines 101-108: free the four buffers (free(NULL) does nothing), return 0.
MainFree ==
  /\ pc = "free"
  /\ buf' = [b \in Buffers |-> IF buf[b] = "live" THEN "freed" ELSE buf[b]]
  /\ status' = "exit0"
  /\ pc' = "done"
  /\ UNCHANGED <<step, step_num, forceBy, energyBy, e0By, e0Writes, trace, out>>
  /\ MainOnly

Next ==
  \/ MainAlloc
  \/ MainLoopTest
  \/ MainInitialize
  \/ MainUpdate
  \/ MainCompute
  \/ MainRecord
  \/ MainPrint
  \/ MainFree

Spec == Init /\ [][Next]_vars

(***************************************************************************)
(* C int arithmetic                                                        *)
(***************************************************************************)
\* Line 337: the largest int.
i4_huge == 2147483647

I4Min == -i4_huge - 1

\* An int result: ok is FALSE, and v is 0, when the exact result does not
\* fit in 32 bits (signed overflow is undefined in C).
IntRes(ok, v) == [ok |-> ok, v |-> IF ok THEN v ELSE 0]

\* a / b of C for b > 0: the quotient is truncated towards zero.
TruncDiv(a, b) ==
  IF a < 0 /\ a % b # 0 THEN (a \div b) + 1 ELSE a \div b

\* a * b for b > 0, decided without forming a product that does not fit.
IMul(a, b) ==
  LET hi == i4_huge \div b
      lo == IF I4Min % b = 0 THEN I4Min \div b ELSE (I4Min \div b) + 1
  IN  IF lo <= a /\ a <= hi THEN IntRes(TRUE, a * b) ELSE IntRes(FALSE, 0)

\* a - b.
ISub(a, b) ==
  IF (b >= 0 /\ a >= I4Min + b) \/ (b < 0 /\ a <= i4_huge + b)
  THEN IntRes(TRUE, a - b) ELSE IntRes(FALSE, 0)

\* a + b.
IAdd(a, b) ==
  IF (b >= 0 /\ a <= i4_huge - b) \/ (b < 0 /\ a >= I4Min - b)
  THEN IntRes(TRUE, a + b) ELSE IntRes(FALSE, 0)

(***************************************************************************)
(* r8mat_uniform_ab                                                        *)
(***************************************************************************)
MaxM == 2
MaxN == 2
MaxLowSeed == 3

\* The seeds a fill is started with: the program's own (line 278), zero, the
\* ends of the int range of the recursion, and seeds at the ends of the
\* ranges of the quotient and of the remainder by 127773.
SeedSamples ==
  {0, 123456789, i4_huge, -1}
    \cup (1..MaxLowSeed)
    \cup ((i4_huge - MaxLowSeed)..(i4_huge - 1))
    \cup {q * 127773 + rem : q \in {0, 1, 8403, 16806}, rem \in {0, 1, 2835, 2836, 2837, 127772}}
    \cup {16807 * 127773 + rem : rem \in {0, 1, 2834}}

\* The recursion written with the product formed first: 16807 * seed does
\* not fit in an int for most seeds.
NaiveLcgStep(s) ==
  LET t1 == IMul(s, 16807)
      v  == t1.v % i4_huge
  IN  [k |-> 0, seed |-> v, ok |-> t1.ok]

\* Lines 353-360: one step of the recursion, every int operation in the
\* order the expression is evaluated.
LcgStep(s) ==
  LET k  == TruncDiv(s, 127773)
      t1 == IMul(k, 127773)
      t2 == ISub(s, t1.v)
      t3 == IMul(t2.v, 16807)
      t4 == IMul(k, 2836)
      t5 == ISub(t3.v, t4.v)
      t6 == IF t5.v < 0 THEN IAdd(t5.v, i4_huge) ELSE t5
  IN  [k |-> k, seed |-> t6.v,
       ok |-> t1.ok /\ t2.ok /\ t3.ok /\ t4.ok /\ t5.ok /\ t6.ok]

\* Line 361: r[i+j*m] = a + (b - a) * (double) seed * 4.656612875E-10.  The
\* slot is kept as the seed it is made from, which determines it.
Slot(i, j, m) == i + j * m

InitGen ==
  /\ gpc = "entry"
  /\ seed \in SeedSamples
  /\ gm \in 1..MaxM
  /\ gn \in 1..MaxN
  /\ gi = 0 /\ gj = 0 /\ gk = 0
  /\ r = <<>>
  /\ gexit = -1
  /\ intOk = TRUE
  /\ MainIdle /\ UpdIdle /\ CmpIdle /\ ScrIdle

\* Lines 341-349: the seed is tested once, before the loops; exit ( 1 ) if
\* it is zero.
GenEntry ==
  /\ gpc = "entry"
  /\ IF seed = 0
     THEN gpc' = "exited" /\ gexit' = 1
     ELSE gpc' = "loop" /\ gexit' = gexit
  /\ UNCHANGED <<seed, gm, gn, gi, gj, gk, r, intOk>>
  /\ GenOnly

\* Lines 351-362: one pass of the inner loop body, and the loop counters
\* moved to the next slot (i fastest).
GenDraw ==
  /\ gpc = "loop"
  /\ gj < gn
  /\ LET d == LcgStep(seed)
         at == Slot(gi, gj, gm)
     IN  /\ gk' = d.k
         /\ seed' = d.seed
         /\ intOk' = (intOk /\ d.ok)
         /\ r' = [x \in (DOMAIN r) \cup {at} |-> IF x = at THEN d.seed ELSE r[x]]
  /\ IF gi + 1 < gm
     THEN gi' = gi + 1 /\ gj' = gj
     ELSE gi' = 0 /\ gj' = gj + 1
  /\ UNCHANGED <<gpc, gm, gn, gexit>>
  /\ GenOnly

\* Line 365: return, after the last column.
GenReturn ==
  /\ gpc = "loop"
  /\ gj >= gn
  /\ gpc' = "returned"
  /\ UNCHANGED <<seed, gm, gn, gi, gj, gk, r, gexit, intOk>>
  /\ GenOnly

NextGen ==
  \/ GenEntry
  \/ GenDraw
  \/ GenReturn

SpecGen == InitGen /\ [][NextGen]_vars

(***************************************************************************)
(* Exact arithmetic for the doubles of update                              *)
(***************************************************************************)
Abs(x) == IF x < 0 THEN -x ELSE x

RECURSIVE GCD(_, _)
GCD(a, b) == IF b = 0 THEN a ELSE GCD(b, a % b)

\* The fraction n/d (d # 0) in lowest terms, with a positive denominator.
Rat(n, d) ==
  LET g == GCD(Abs(n), Abs(d))
      sg == IF d < 0 THEN -1 ELSE 1
  IN  [n |-> sg * (n \div g), d |-> sg * (d \div g)]

RAdd(x, y) ==
  LET g == GCD(x.d, y.d)
  IN  Rat(x.n * (y.d \div g) + y.n * (x.d \div g), (x.d \div g) * y.d)

RMul(x, y) ==
  LET g1 == GCD(Abs(x.n), y.d)
      g2 == GCD(Abs(y.n), x.d)
  IN  IF x.n = 0 \/ y.n = 0 THEN Rat(0, 1)
      ELSE Rat((x.n \div g1) * (y.n \div g2), (x.d \div g2) * (y.d \div g1))

\* x / y for y # 0.
RDiv(x, y) == RMul(x, Rat(y.d, y.n))

(***************************************************************************)
(* update                                                                  *)
(***************************************************************************)
MaxUNp == 2
MaxUNd == 2
MaxVal == 2
MaxPat == 2
MaxMass == 2

\* The time steps tried: the program's 0.0001 (line 46), 1/2 and 2.
DtSamples == {Rat(1, 10000), Rat(1, 2), Rat(2, 1)}

\* A field of len slots with values in -MaxVal..MaxVal that differ from
\* slot to slot, one field per pattern p.
SampleField(p, len) ==
  [s \in 0..(len - 1) |-> Rat(((3 * p + (p + 1) * s) % (2 * MaxVal + 1)) - MaxVal, 1)]

\* The slot's three assignments with the acceleration refreshed first.
UpdateSlotAccFirst(st, s, f, rmass, dt) ==
  LET s1 == [st EXCEPT !.acc[s] = RMul(f[s], rmass)]
      s2 == [s1 EXCEPT !.pos[s] =
               RAdd(RAdd(s1.pos[s], RMul(s1.vel[s], dt)),
                    RMul(RMul(RMul(Rat(1, 2), s1.acc[s]), dt), dt))]
      s3 == [s2 EXCEPT !.vel[s] =
               RAdd(s2.vel[s],
                    RMul(RMul(Rat(1, 2), dt), RAdd(RMul(f[s], rmass), s2.acc[s])))]
  IN  s3

\* Lines 416-418: the three assignments of one slot, each reading the fields
\* as the assignments before it left them.
UpdateSlot(st, s, f, rmass, dt) ==
  LET s1 == [st EXCEPT !.pos[s] =
               RAdd(RAdd(st.pos[s], RMul(st.vel[s], dt)),
                    RMul(RMul(RMul(Rat(1, 2), st.acc[s]), dt), dt))]
      s2 == [s1 EXCEPT !.vel[s] =
               RAdd(s1.vel[s],
                    RMul(RMul(Rat(1, 2), dt), RAdd(RMul(f[s], rmass), s1.acc[s])))]
      s3 == [s2 EXCEPT !.acc[s] = RMul(f[s], rmass)]
  IN  s3

RECURSIVE UpdateLoop(_, _, _, _, _, _, _, _)
\* Lines 412-420: for j, for i, the slot i+j*nd.
UpdateLoop(st, j, i, np, nd, f, rmass, dt) ==
  IF j >= np THEN st
  ELSE IF i >= nd THEN UpdateLoop(st, j + 1, 0, np, nd, f, rmass, dt)
  ELSE UpdateLoop(UpdateSlot(st, i + j * nd, f, rmass, dt), j, i + 1, np, nd, f, rmass, dt)

\* Lines 410-422: rmass = 1.0 / mass, then the loops.
UpdateRun(np, nd, pos, vel, f, acc, mass, dt) ==
  UpdateLoop([pos |-> pos, vel |-> vel, acc |-> acc], 0, 0, np, nd, f,
             RDiv(Rat(1, 1), mass), dt)

InitUpdate ==
  /\ upc = "call"
  /\ unp \in 1..MaxUNp
  /\ und \in 1..MaxUNd
  /\ \E p \in 0..MaxPat : upos = SampleField(p, unp * und)
  /\ \E p \in 0..MaxPat : uvel = SampleField(p, unp * und)
  /\ \E p \in 0..MaxPat : uacc = SampleField(p, unp * und)
  /\ \E p \in 0..MaxPat : uf = SampleField(p, unp * und)
  /\ \E m \in 1..MaxMass : umass = Rat(m, 1)
  /\ udt \in DtSamples
  /\ MainIdle /\ GenIdle /\ CmpIdle /\ ScrIdle

\* One call of update: pos, vel and acc are rewritten in place.
Update ==
  /\ upc = "call"
  /\ LET res == UpdateRun(unp, und, upos, uvel, uf, uacc, umass, udt)
     IN  /\ upos' = res.pos
         /\ uvel' = res.vel
         /\ uacc' = res.acc
  /\ upc' = "returned"
  /\ UNCHANGED <<unp, und, uf, umass, udt>>
  /\ UpdOnly

NextUpdate ==
  \/ Update

SpecUpdate == InitUpdate /\ [][NextUpdate]_vars

(***************************************************************************)
(* compute and dist                                                        *)
(*                                                                         *)
(* Positions are points of the integer grid, so the square of a distance   *)
(* is an integer, kept in place of the distance (d = sqrt(dsq)).  The sums *)
(* compute forms are kept term by term, in the order of the additions:     *)
(*   pot      the terms 0.5 * sin(d2)^2, each named by its d2;             *)
(*   a force  what the slot held before, then the terms                    *)
(*            rij[i] * sin(2*d2) / d subtracted from it.                   *)
(***************************************************************************)
\* Line 160: double rij[3].
RijCap == 3

MaxCNp == 3
MaxOrigin == 1
MaxStride == 2
MaxVelPat == 1
MaxLeftover == 1
MaxCalls == 2

\* Particle k (of np) at o + k*(a + b*i) in dimension i: all particles in
\* one point for a = b = 0, on a line for b = 0, spread otherwise.
GridField(np, nd, o, a, b) ==
  [s \in 0..(np * nd - 1) |-> o + (s \div nd) * (a + b * (s % nd))]

\* Velocities v, -v, v, ...
VelField(v, len) == [s \in 0..(len - 1) |-> IF s % 2 = 0 THEN v ELSE -v]

\* The force slot holding 0.0.
Zero == [init |-> 0, sub |-> <<>>]

\* What malloc hands out, or an earlier call left: zeros for g = 0, else
\* some other value in each slot.
LeftoverField(g, len) ==
  [s \in 0..(len - 1) |-> IF g = 0 THEN Zero ELSE [init |-> g + s, sub |-> <<>>]]

\* r[0..nd-1] of the pointer pos + k*nd.
At(pos, k, nd) == [i \in 0..(nd - 1) |-> pos[i + k * nd]]

RECURSIVE DistLoop(_, _, _, _, _, _)
\* Lines 240-244: dr[i] = r1[i] - r2[i]; d = d + dr[i] * dr[i].
DistLoop(i, nd, r1, r2, dr, d) ==
  IF i >= nd THEN [dr |-> dr, dsq |-> d]
  ELSE LET x == r1[i] - r2[i]
           dr1 == [n \in (DOMAIN dr) \cup {i} |-> IF n = i THEN x ELSE dr[n]]
       IN  DistLoop(i + 1, nd, r1, r2, dr1, d + x * x)

\* Lines 239-247: the displacement, and the distance as its square.
dist(nd, r1, r2) == DistLoop(0, nd, r1, r2, <<>>, 0)

\* Line 183: d < PI2, for d = sqrt(dsq): d*d < 2.4674011... = PI2*PI2, which
\* for an integer dsq is 10000 * dsq <= 24674.
LtPI2(dsq) == 10000 * dsq <= 24674

\* The clamp left out: d2 = d whatever d is.
ClampNever(dsq) == [sat |-> FALSE, dsq |-> dsq]

\* Lines 183-190: d2 = d if d < PI2, else PI2.
Clamp(dsq) ==
  IF LtPI2(dsq) THEN [sat |-> FALSE, dsq |-> dsq] ELSE [sat |-> TRUE, dsq |-> 0]

\* The k-th particle's slots left as they are.
NoResetForce(f, k, nd) == f

\* Lines 170-173: f[i+k*nd] = 0.0 for every i.
ResetForce(f, k, nd) ==
  [s \in DOMAIN f |-> IF s \in {i + k * nd : i \in 0..(nd - 1)} THEN Zero ELSE f[s]]

\* Every pair taken, the pair of a particle with itself too.
InteractsAll(k, j) == TRUE

\* Line 177: k != j.
Interacts(k, j) == k # j

\* Lines 179-197: one pair: dist, the clamp, the potential term, and the
\* term subtracted from each of the k-th particle's force slots.
Pair(st, k, j, nd, pos) ==
  LET dd == dist(nd, At(pos, k, nd), At(pos, j, nd))
      d2 == Clamp(dd.dsq)
  IN  [st EXCEPT
         !.pe = Append(@, d2),
         !.visited = Append(@, [k |-> k, j |-> j, dsq |-> dd.dsq]),
         !.f = [s \in DOMAIN @ |->
                  IF s \in {i + k * nd : i \in 0..(nd - 1)}
                  THEN [@[s] EXCEPT !.sub =
                          Append(@, [r |-> dd.dr[s - k * nd], d2 |-> d2, dsq |-> dd.dsq])]
                  ELSE @[s]]]

RECURSIVE JLoop(_, _, _, _, _, _)
\* Lines 175-199: for j.
JLoop(st, k, j, np, nd, pos) ==
  IF j >= np THEN st
  ELSE IF Interacts(k, j) THEN JLoop(Pair(st, k, j, nd, pos), k, j + 1, np, nd, pos)
  ELSE JLoop(st, k, j + 1, np, nd, pos)

RECURSIVE Kinetic(_, _, _, _, _)
\* Lines 203-206: ki = ki + vel[i+k*nd] * vel[i+k*nd].
Kinetic(ki, i, k, nd, vel) ==
  IF i >= nd THEN ki
  ELSE Kinetic(ki + vel[i + k * nd] * vel[i + k * nd], i + 1, k, nd, vel)

RECURSIVE KLoop(_, _, _, _, _, _)
\* Lines 165-207: for k: reset the particle's force, the pairs, the kinetic
\* terms.
KLoop(st, k, np, nd, pos, vel) ==
  IF k >= np THEN st
  ELSE LET s1 == [st EXCEPT !.f = ResetForce(@, k, nd)]
           s2 == JLoop(s1, k, 0, np, nd, pos)
           s3 == [s2 EXCEPT !.ki = Kinetic(@, 0, k, nd, vel)]
       IN  KLoop(s3, k + 1, np, nd, pos, vel)

\* Lines 162-214: pe = ki = 0, the loops, ki = ki * 0.5 * mass.
ComputeRun(np, nd, pos, vel, mass, f) ==
  LET st == KLoop([f |-> f, pe |-> <<>>, ki |-> 0, visited |-> <<>>], 0, np, nd, pos, vel)
  IN  [f |-> st.f, pot |-> st.pe, kin |-> Rat(st.ki * mass, 2), visited |-> st.visited]

InitCompute ==
  /\ cpc = "call"
  /\ cnp \in 1..MaxCNp
  /\ cnd \in 1..RijCap
  /\ \E o \in 0..MaxOrigin, a \in 0..MaxStride, b \in 0..MaxStride :
       cpos = GridField(cnp, cnd, o, a, b)
  /\ \E v \in {0, MaxVelPat} : cvel = VelField(v, cnp * cnd)
  /\ cmass \in {1, MaxMass}
  /\ \E g \in 0..MaxLeftover : cf = LeftoverField(g, cnp * cnd)
  /\ pot = <<>>
  /\ kin = Rat(0, 1)
  /\ visited = <<>>
  /\ calls = 0
  /\ MainIdle /\ GenIdle /\ UpdIdle /\ ScrIdle

\* One call of compute: f, *pot and *kin are written.
Compute ==
  /\ cpc = "call"
  /\ LET res == ComputeRun(cnp, cnd, cpos, cvel, cmass, cf)
     IN  /\ cf' = res.f
         /\ pot' = res.pot
         /\ kin' = res.kin
         /\ visited' = res.visited
  /\ calls' = calls + 1
  /\ cpc' = "returned"
  /\ UNCHANGED <<cnp, cnd, cpos, cvel, cmass>>
  /\ CmpOnly

\* Lines 84-87 of main: between two compute calls update moves the
\* particles; the force field keeps what the earlier compute left in it.
Reposition ==
  /\ cpc = "returned"
  /\ calls < MaxCalls
  /\ \E a \in 0..MaxStride, b \in 0..MaxStride :
       cpos' = GridField(cnp, cnd, cpos[0], a, b)
  /\ cpc' = "call"
  /\ UNCHANGED <<cnp, cnd, cvel, cmass, cf, pot, kin, visited, calls>>
  /\ CmpOnly

NextCompute ==
  \/ Compute
  \/ Reposition

SpecCompute == InitCompute /\ [][NextCompute]_vars

(***************************************************************************)
(* compute's scratch vector                                                *)
(*                                                                         *)
(* The same loops of compute, one dist call at a time and one write of     *)
(* dr[i] at a time, for the dimension counts compute may be called with.   *)
(***************************************************************************)
MaxSNp == 3
MaxSNd == 4

InitScratch ==
  /\ spc = "pair"
  /\ snp \in 1..MaxSNp
  /\ snd \in 1..MaxSNd
  /\ sk = 0 /\ sj = 0 /\ si = 0
  /\ rij = [i \in 0..(RijCap - 1) |-> 0]
  /\ written = {}
  /\ \E o \in 0..MaxOrigin, a \in 0..MaxStride, b \in 0..MaxStride :
       spos = GridField(snp, snd, o, a, b)
  /\ MainIdle /\ GenIdle /\ UpdIdle /\ CmpIdle

\* Lines 165, 175-177: the loop counters move on to the next pair k != j.
ScrNextPair ==
  /\ spc = "pair"
  /\ sk < snp
  /\ \/ sj >= snp /\ sk' = sk + 1 /\ sj' = 0
     \/ sj < snp /\ sj = sk /\ sj' = sj + 1 /\ sk' = sk
  /\ UNCHANGED <<spc, snp, snd, si, rij, written, spos>>
  /\ ScrOnly

\* Line 179: d = dist ( nd, pos+k*nd, pos+j*nd, rij ).
ScrCallDist ==
  /\ spc = "pair"
  /\ sk < snp /\ sj < snp /\ sj # sk
  /\ spc' = "dist"
  /\ si' = 0
  /\ UNCHANGED <<snp, snd, sk, sj, rij, written, spos>>
  /\ ScrOnly

\* Lines 240-243: dr[i] = r1[i] - r2[i], where dr is rij.  A write at an
\* index past the end of rij is undefined: it lands in whatever follows rij
\* in compute's frame, or the process is killed.
ScrDistWrite ==
  /\ spc = "dist"
  /\ si < snd
  /\ written' = written \cup {si}
  /\ IF si < RijCap
     THEN /\ rij' = [rij EXCEPT ![si] = spos[si + sk * snd] - spos[si + sj * snd]]
          /\ spc' = spc
          /\ si' = si + 1
     ELSE /\ rij' = rij
          /\ \/ spc' = spc /\ si' = si + 1
             \/ spc' = "fault" /\ si' = si
  /\ UNCHANGED <<snp, snd, sk, sj, spos>>
  /\ ScrOnly

\* Lines 245-247, 183-199: dist returns; compute goes on to the next j.
ScrDistReturn ==
  /\ spc = "dist"
  /\ si >= snd
  /\ spc' = "pair"
  /\ sj' = sj + 1
  /\ UNCHANGED <<snp, snd, sk, si, rij, written, spos>>
  /\ ScrOnly

\* Lines 207-214: compute returns after the last particle.
ScrReturn ==
  /\ spc = "pair"
  /\ sk >= snp
  /\ spc' = "returned"
  /\ UNCHANGED <<snp, snd, sk, sj, si, rij, written, spos>>
  /\ ScrOnly

NextScratch ==
  \/ ScrNextPair
  \/ ScrCallDist
  \/ ScrDistWrite
  \/ ScrDistReturn
  \/ ScrReturn

SpecScratch == InitScratch /\ [][NextScratch]_vars

(***************************************************************************)
(* Properties of main                                                      *)
(***************************************************************************)
IsPrefix(a, b) == Len(a) <= Len(b) /\ a = SubSeq(b, 1, Len(a))

RECURSIVE LaterSteps(_, _)
\* The calls of the steps s..n for s > 0: update, reading the force field
\* that the compute of step s-1 wrote, then compute.
LaterSteps(s, n) ==
  IF s > n THEN <<>>
  ELSE <<Event("update", s, s - 1), Event("compute", s, -1)>> \o LaterSteps(s + 1, n)

\* The calls of a whole run of n+1 iterations, the summary last.
ExpectedTrace(n) ==
  <<Event("initialize", 0, -1), Event("compute", 0, -1), Event("e0", 0, -1)>>
    \o LaterSteps(1, n) \o <<Event("print", n + 1, -1)>>

\* C1: main makes its calls in the order initialize, compute, e0 at step 0,
\* then update (reading the force field of the previous step's compute) and
\* compute at each later step; e0 is assigned at most once; and once the
\* summary is printed the run was exactly step_num+1 iterations, e0 was
\* assigned once, and the energies printed are those of the compute of step
\* step_num.
C1_DriverOrder ==
  /\ IsPrefix(trace, ExpectedTrace(step_num))
  /\ e0Writes <= 1
  /\ out # <<>> =>
       /\ trace = ExpectedTrace(step_num)
       /\ e0Writes = 1
       /\ out = <<[energy |-> step_num, e0 |-> 0]>>

C1_Witness ==
  /\ pc = "done"
  /\ step_num = 2
  /\ Len(trace) = 8
  /\ forceBy = 2

\* C7: once an allocation has failed, main calls none of initialize, update
\* and compute, and does not end with status 0.
C7_AllocFailureFatal ==
  (\E b \in Buffers : buf[b] = "null") => (trace = <<>> /\ status # "exit0")

(***************************************************************************)
(* Properties of r8mat_uniform_ab                                          *)
(***************************************************************************)
\* x + y mod m for 0 <= x, y < m, without forming x + y.
AddMod(x, y, m) == IF x >= m - y THEN x - (m - y) ELSE x + y

RECURSIVE MulMod(_, _, _)
\* a * b mod m for 0 <= a < m and b >= 0, by doubling.
MulMod(a, b, m) ==
  IF b = 0 THEN 0
  ELSE LET h == MulMod(a, b \div 2, m)
           d == AddMod(h, h, m)
       IN  IF b % 2 = 1 THEN AddMod(d, a, m) ELSE d

\* A draw is about to be made: at the entry of a fill with at least one
\* slot, or in the loops with a slot left.
DrawPending == (gpc = "entry" /\ gm * gn > 0) \/ (gpc = "loop" /\ gj < gn)

\* C3: a draw from a seed in 1..2^31-2 leaves the seed equal to
\* 16807 * seed mod (2^31 - 1), and none of its int operations leaves the
\* 32-bit range.
C3_SchrageStep ==
  [][(gpc = "loop" /\ gj < gn /\ seed \in 1..(i4_huge - 1))
       => (seed' = MulMod(seed, 16807, i4_huge) /\ LcgStep(seed).ok /\ intOk')]_vars

C3_Witness ==
  /\ gpc = "returned"
  /\ gm * gn = 4
  /\ r[0] = MulMod(i4_huge - 1, 16807, i4_huge)
  /\ r[1] = MulMod(r[0], 16807, i4_huge)
  /\ seed = r[3]

\* C4: when the seed is zero as a draw is about to be made, the next step
\* exits with a non-zero status, writes no slot and leaves the seed alone.
C4_ZeroSeedFatal ==
  [][(seed = 0 /\ DrawPending)
       => (gpc' = "exited" /\ gexit' # 0 /\ gexit' # -1 /\ r' = r /\ seed' = seed)]_vars

(***************************************************************************)
(* Properties of update                                                    *)
(***************************************************************************)
\* C2: one update call leaves in every slot s the position
\* x + v*dt + 0.5*a*dt^2, the velocity v + 0.5*dt*(f/m + a) and the
\* acceleration f/m, where x, v, a are the slot's own values before the call
\* and f its force; the force field is left as it was.
C2_VerletSlot ==
  [][upc = "call" /\ upc' = "returned" =>
       /\ uf' = uf
       /\ \A s \in 0..(unp * und - 1) :
            LET x == upos[s]
                v == uvel[s]
                a == uacc[s]
                fm == RDiv(uf[s], umass)
                half == Rat(1, 2)
            IN  /\ upos'[s] = RAdd(x, RAdd(RMul(v, udt), RMul(RMul(half, a), RMul(udt, udt))))
                /\ uvel'[s] = RAdd(v, RMul(RMul(half, udt), RAdd(fm, a)))
                /\ uacc'[s] = fm]_vars

C2_Witness ==
  /\ upc = "returned"
  /\ unp * und = 4
  /\ udt = Rat(1, 10000)
  /\ umass = Rat(2, 1)
  /\ \E s \in 0..3 :
       /\ uacc[s] = RDiv(uf[s], umass)
       /\ uacc[s].n # 0
       /\ upos[s].d = 200000000
       /\ uvel[s].d = 40000

(***************************************************************************)
(* Properties of compute                                                   *)
(***************************************************************************)
RECURSIVE SqDistFrom(_, _, _, _, _)
\* The square of the distance between particles k and j: the sum over the
\* dimensions i..nd-1 of the squared differences.
SqDistFrom(i, pos, k, j, nd) ==
  IF i >= nd THEN 0
  ELSE (pos[i + k * nd] - pos[i + j * nd]) * (pos[i + k * nd] - pos[i + j * nd])
         + SqDistFrom(i + 1, pos, k, j, nd)

SqDist(pos, k, j, nd) == SqDistFrom(0, pos, k, j, nd)

Particles == 0..(cnp - 1)

\* Every two particles are at distinct positions, at a distance of at least
\* pi/2: its square is at least 2.4674011..., so at least 3 on the grid.
FarApart ==
  \A k, j \in Particles : k # j => SqDist(cpos, k, j, cnd) >= 3

\* The ordered pairs compute handed to dist, in order.
VisitedPairs == [n \in 1..Len(visited) |-> <<visited[n].k, visited[n].j>>]

\* C5: with every two particles at least pi/2 apart the potential is
\* 0.5 * P * (P-1): it is the sum of P*(P-1) terms 0.5 * sin(pi/2)^2, one
\* for each ordered pair (k, j) with j # k, and of nothing else.
C5_SaturatedPotential ==
  (cpc = "returned" /\ FarApart) =>
    /\ Len(pot) = cnp * (cnp - 1)
    /\ \A n \in 1..Len(pot) : pot[n] = [sat |-> TRUE, dsq |-> 0]
    /\ Rat(Len(pot), 2) = RMul(Rat(1, 2), Rat(cnp * (cnp - 1), 1))
    /\ Len(visited) = Len(pot)
    /\ \A k, j \in Particles :
         k # j => Cardinality({n \in 1..Len(visited) : VisitedPairs[n] = <<k, j>>}) = 1

C5_Witness ==
  /\ cpc = "returned"
  /\ cnp = 3
  /\ cnd = 2
  /\ FarApart
  /\ Len(pot) = 6
  /\ cpos[2] # cpos[3]

\* C6: compute hands no pair (k, k) to dist; with one particle the force is
\* 0.0 in every dimension and the potential is the empty sum, whatever the
\* position and whatever the force field held before.
C6_NoSelfInteraction ==
  cpc = "returned" =>
    /\ \A n \in 1..Len(visited) : visited[n].k # visited[n].j
    /\ cnp = 1 => (pot = <<>> /\ \A s \in 0..(cnd - 1) : cf[s] = Zero)

C6_Witness ==
  /\ cpc = "returned"
  /\ cnp = 1
  /\ cnd = 3
  /\ calls = 1
  /\ cpos[0] # 0
  /\ cf = [s \in 0..2 |-> Zero]

\* C8: every distance compute divides by is non-zero.
C8_DistanceNonZero ==
  \A n \in 1..Len(visited) : visited[n].dsq # 0

\* The j-th particle other than k, in the order of the j loop.
Other(k, n) == IF n <= k THEN n - 1 ELSE n

\* The force of a position field, slot by slot: 0.0 less the term of each
\* other particle in turn.
RefForce(np, nd, pos) ==
  [s \in 0..(np * nd - 1) |->
     LET k == s \div nd
         i == s % nd
     IN  [init |-> 0,
          sub |-> [n \in 1..(np - 1) |->
                     LET j == Other(k, n)
                         dsq == SqDist(pos, k, j, nd)
                     IN  [r |-> pos[i + k * nd] - pos[i + j * nd],
                          d2 |-> Clamp(dsq), dsq |-> dsq]]]]

\* C9: a compute call leaves in the force field the force of the position
\* field it was given, with nothing of what the field held before, and
\* leaves the positions and the velocities as they were.
C9_ForceFromPositionsOnly ==
  [][cpc = "call" /\ cpc' = "returned" =>
       /\ cf' = RefForce(cnp, cnd, cpos)
       /\ cpos' = cpos
       /\ cvel' = cvel]_vars

C9_Witness ==
  /\ cpc = "returned"
  /\ calls = 2
  /\ cnp = 3
  /\ cf = RefForce(cnp, cnd, cpos)
  /\ cf[0].sub[1].dsq = 2
  /\ cf[0].sub[2].dsq = 8

(***************************************************************************)
(* Properties of the scratch vector                                        *)
(***************************************************************************)
\* C10: every index of dr[] that dist writes is an index of rij.
C10_ScratchInBounds ==
  \A i \in written : i \in 0..(RijCap - 1)

=============================================================================
